---- MODULE Spec2Model ----
(***************************************************************************)
(* Argument binding of starlark/src/values/function.rs: parse_signature,   *)
(* NativeFunction::call and WrappedMethod::call, as a state machine.       *)
(*                                                                         *)
(* One NativeFunction (signature, function_type) and one WrappedMethod     *)
(* (method, self_obj) wrapping it are constructed in Init.  A call enters  *)
(* either through NativeFunction::call or through WrappedMethod::call and  *)
(* then runs parse_signature statement by statement: collect args, collect *)
(* kwargs, one step per declared parameter, the extras check; then the     *)
(* function pointer is invoked and the result travels back to the caller.  *)
(***************************************************************************)
EXTENDS Naturals, Sequences, FiniteSets, TLC

(***************************************************************************)
(* Bounds of the model.                                                    *)
(***************************************************************************)
\* longest signature constructed
MaxParams == 2
\* longest positional vector a caller passes
MaxPos == 2

(***************************************************************************)
(* Value: the dynamically typed value of the interpreter.  Every value has *)
(* the same record shape so that any two values can be compared.           *)
(*   int    : n                                                            *)
(*   string : s                                                            *)
(*   list   : items                                                        *)
(*   dict   : items are the keys in iteration order, vals the values       *)
(***************************************************************************)
IntValue(i) == [type |-> "int", n |-> i, s |-> "", items |-> <<>>, vals |-> <<>>]
StrValue(str) == [type |-> "string", n |-> 0, s |-> str, items |-> <<>>, vals |-> <<>>]
ListValue(xs) == [type |-> "list", n |-> 0, s |-> "", items |-> xs, vals |-> <<>>]
DictValue(ks, vs) == [type |-> "dict", n |-> 0, s |-> "", items |-> ks, vals |-> vs]
NoneValue == [type |-> "NoneType", n |-> 0, s |-> "", items |-> <<>>, vals |-> <<>>]

\* Option<T>: None is the empty sequence, Some(x) the one-element sequence
None == <<>>
Some(x) == <<x>>
IsSome(o) == Len(o) > 0
Unwrap(o) == o[1]

\* Value::get_type
get_type(x) == x.type

\* Value::to_str of a string value is its content
value_to_str(x) == x.s

\* Value::iter: lists iterate their elements, dicts their keys, nothing else iterates
ValueIter(x) ==
  IF x.type \in {"list", "dict"}
    THEN [ok |-> TRUE, items |-> x.items]
    ELSE [ok |-> FALSE, items |-> <<>>]

\* Value::at: a dict indexes by key, a list by an int in range
ValueAt(x, idx) ==
  IF x.type = "dict" /\ \E i \in 1..Len(x.items) : x.items[i] = idx
    THEN [ok |-> TRUE,
          value |-> x.vals[CHOOSE i \in 1..Len(x.items) : x.items[i] = idx]]
    ELSE IF x.type = "list" /\ idx.type = "int" /\ idx.n \in 0..(Len(x.items) - 1)
      THEN [ok |-> TRUE, value |-> x.items[idx.n + 1]]
      ELSE [ok |-> FALSE, value |-> NoneValue]

Digit(d) == <<"0", "1", "2", "3", "4", "5", "6", "7", "8", "9">>[d + 1]

RECURSIVE NatToStr(_)
NatToStr(i) == IF i < 10 THEN Digit(i) ELSE NatToStr(i \div 10) \o Digit(i % 10)

\* Value::to_repr, for the values a default can hold
value_to_repr(x) ==
  IF x.type = "int" THEN NatToStr(x.n)
  ELSE IF x.type = "string" THEN "\"" \o x.s \o "\""
  ELSE IF x.type = "NoneType" THEN "None"
  ELSE "<" \o x.type \o ">"

(***************************************************************************)
(* LinkedHashMap<String, Value>: a sequence of entries in iteration order. *)
(***************************************************************************)
Entry(key, val) == [k |-> key, v |-> val]
Keys(d) == {d[i].k : i \in 1..Len(d)}
Without(d, key) == SelectSeq(d, LAMBDA e : e.k # key)
MapGet(d, key) == (CHOOSE i \in 1..Len(d) : d[i].k = key)

\* insert of the linked-hash-map crate: a new key is attached at the back; for a
\* key already present the value is replaced and the node is detached and attached
\* again, which moves it to the back of the iteration order
MapInsert(d, key, val) == Append(Without(d, key), Entry(key, val))

\* remove: Some(value) and the map without the key, or None
MapRemove(d, key) ==
  IF key \in Keys(d)
    THEN [value |-> Some(d[MapGet(d, key)].v), rest |-> Without(d, key)]
    ELSE [value |-> None, rest |-> d]

(***************************************************************************)
(* FunctionParameter, FunctionType, FunctionArg, FunctionError             *)
(***************************************************************************)
ParamNormal(name) == [kind |-> "Normal", name |-> name, default |-> None]
ParamOptional(name) == [kind |-> "Optional", name |-> name, default |-> None]
ParamWithDefaultValue(name, d) == [kind |-> "WithDefaultValue", name |-> name, default |-> Some(d)]
ParamArgsArray(name) == [kind |-> "ArgsArray", name |-> name, default |-> None]
ParamKWArgsDict(name) == [kind |-> "KWArgsDict", name |-> name, default |-> None]

TypeNative(name) == [variant |-> "Native", name |-> name, module |-> ""]
TypeDef(name, module) == [variant |-> "Def", name |-> name, module |-> module]

ArgNormal(x) == [variant |-> "Normal", value |-> Some(x), array |-> <<>>, dict |-> <<>>]
ArgOptional(o) == [variant |-> "Optional", value |-> o, array |-> <<>>, dict |-> <<>>]
ArgArgsArray(xs) == [variant |-> "ArgsArray", value |-> None, array |-> xs, dict |-> <<>>]
ArgKWArgsDict(d) == [variant |-> "KWArgsDict", value |-> None, array |-> <<>>, dict |-> d]

NoFunctionType == [variant |-> "", name |-> "", module |-> ""]
FunctionError(variant) ==
  [variant |-> variant, missing |-> "", function_type |-> NoFunctionType, signature |-> <<>>]
NotEnoughParameter(missing, function_type, signature) ==
  [variant |-> "NotEnoughParameter", missing |-> missing,
   function_type |-> function_type, signature |-> signature]
ArgsValueIsNotString == FunctionError("ArgsValueIsNotString")
ArgsArrayIsNotIterable == FunctionError("ArgsArrayIsNotIterable")
KWArgsDictIsNotMappable == FunctionError("KWArgsDictIsNotMappable")
ExtraParameter == FunctionError("ExtraParameter")
NoFunctionError == FunctionError("")

NOT_ENOUGH_PARAMS_ERROR_CODE == "CF00"
WRONG_ARGS_IDENT_ERROR_CODE == "CF01"
ARGS_NOT_ITERABLE_ERROR_CODE == "CF02"
KWARGS_NOT_MAPPABLE_ERROR_CODE == "CF03"
EXTRA_PARAMETER_ERROR_CODE == "CF05"

\* FunctionType::to_repr
type_to_repr(ft) ==
  IF ft.variant = "Native"
    THEN "<native function " \o ft.name \o ">"
    ELSE "<function " \o ft.name \o " from " \o ft.module \o ">"

\* the closure of repr: one parameter as the diagnostics show it
param_repr(p) ==
  CASE p.kind = "Normal" -> p.name
    [] p.kind = "Optional" -> "?" \o p.name
    [] p.kind = "WithDefaultValue" -> p.name \o " = " \o value_to_repr(Unwrap(p.default))
    [] p.kind = "ArgsArray" -> "*" \o p.name
    [] p.kind = "KWArgsDict" -> "**" \o p.name

RECURSIVE Join(_, _)
Join(strs, sep) ==
  IF Len(strs) = 0 THEN ""
  ELSE IF Len(strs) = 1 THEN strs[1]
  ELSE strs[1] \o sep \o Join(Tail(strs), sep)

\* repr(function_type, signature)
repr(ft, sig) ==
  type_to_repr(ft) \o "(" \o Join([i \in 1..Len(sig) |-> param_repr(sig[i])], ", ") \o ")"

\* ValueError: the error a call returns
NoError == [kind |-> "", code |-> "", label |-> "", message |-> ""]
HostError == [kind |-> "Host", code |-> "", label |-> "", message |-> "host function failed"]

\* str::trim_start_matches('$'): the string without its leading '$' characters
RECURSIVE trim_start_matches_dollar(_)
trim_start_matches_dollar(str) ==
  IF Len(str) > 0 /\ SubSeq(str, 1, 1) = "$"
    THEN trim_start_matches_dollar(SubSeq(str, 2, Len(str)))
    ELSE str

\* Into<RuntimeError> for FunctionError, wrapped by From<FunctionError> for ValueError
ValueErrorFrom(e) ==
  [kind |-> "Runtime",
   code |->
     CASE e.variant = "NotEnoughParameter" -> NOT_ENOUGH_PARAMS_ERROR_CODE
       [] e.variant = "ArgsValueIsNotString" -> WRONG_ARGS_IDENT_ERROR_CODE
       [] e.variant = "ArgsArrayIsNotIterable" -> ARGS_NOT_ITERABLE_ERROR_CODE
       [] e.variant = "KWArgsDictIsNotMappable" -> KWARGS_NOT_MAPPABLE_ERROR_CODE
       [] e.variant = "ExtraParameter" -> EXTRA_PARAMETER_ERROR_CODE,
   label |->
     CASE e.variant = "NotEnoughParameter" -> "Not enough parameters in function call"
       [] e.variant = "ArgsValueIsNotString" -> "not an identifier for *args"
       [] e.variant = "ArgsArrayIsNotIterable" -> "*args is not iterable"
       [] e.variant = "KWArgsDictIsNotMappable" -> "**kwargs is not mappable"
       [] e.variant = "ExtraParameter" -> "Extraneous parameter in function call",
   message |->
     CASE e.variant = "NotEnoughParameter" ->
            "Missing parameter " \o trim_start_matches_dollar(e.missing) \o " for call to "
              \o repr(e.function_type, e.signature)
       [] e.variant = "ArgsValueIsNotString" ->
            "The argument provided for *args is not an identifier"
       [] e.variant = "ArgsArrayIsNotIterable" ->
            "The argument provided for *args is not iterable"
       [] e.variant = "KWArgsDictIsNotMappable" ->
            "The argument provided for **kwargs is not mappable"
       [] e.variant = "ExtraParameter" ->
            "Extraneous parameter passed to function call"]

\* Result<Vec<FunctionArg>, ValueError> of parse_signature
Pending == [tag |-> "Pending", args |-> <<>>, err |-> NoError]
BindOk(args) == [tag |-> "Ok", args |-> args, err |-> NoError]
BindErr(e) == [tag |-> "Err", args |-> <<>>, err |-> ValueErrorFrom(e)]

\* ValueResult of a call
NoResult == [tag |-> "Pending", value |-> None, err |-> NoError]
CallOk(x) == [tag |-> "Ok", value |-> Some(x), err |-> NoError]
CallErr(e) == [tag |-> "Err", value |-> None, err |-> e]

(***************************************************************************)
(* parse_signature, statement by statement.                                *)
(***************************************************************************)
\* "Collect args": the positional vector, extended by the elements of *args
CollectArgs(positional, args) ==
  IF IsSome(args)
    THEN LET y == ValueIter(Unwrap(args))
         IN IF y.ok
              THEN [ok |-> TRUE, av |-> positional \o y.items, error |-> NoFunctionError]
              ELSE [ok |-> FALSE, av |-> <<>>, error |-> ArgsArrayIsNotIterable]
    ELSE [ok |-> TRUE, av |-> positional, error |-> NoFunctionError]

\* InsertKwargs with a bug: a key the mapping already holds is not overwritten
RECURSIVE InsertKwargsKeepNamed(_, _, _, _)
InsertKwargsKeepNamed(x, y, i, kwargs_dict) ==
  IF i > Len(y)
    THEN [ok |-> TRUE, kwargs_dict |-> kwargs_dict, error |-> NoFunctionError]
    ELSE LET n == y[i]
         IN IF get_type(n) = "string"
              THEN LET k == value_to_str(n)
                       r == ValueAt(x, n)
                   IN IF r.ok
                        THEN InsertKwargsKeepNamed(x, y, i + 1,
                               IF k \in Keys(kwargs_dict)
                                 THEN kwargs_dict
                                 ELSE MapInsert(kwargs_dict, k, r.value))
                        ELSE [ok |-> FALSE, kwargs_dict |-> <<>>,
                              error |-> KWArgsDictIsNotMappable]
              ELSE [ok |-> FALSE, kwargs_dict |-> <<>>, error |-> ArgsValueIsNotString]

\* the loop `for n in &y` over the iterated elements of **kwargs, from element i on
RECURSIVE InsertKwargs(_, _, _, _)
InsertKwargs(x, y, i, kwargs_dict) ==
  IF i > Len(y)
    THEN [ok |-> TRUE, kwargs_dict |-> kwargs_dict, error |-> NoFunctionError]
    ELSE LET n == y[i]
         IN IF get_type(n) = "string"
              THEN LET k == value_to_str(n)
                       r == ValueAt(x, n)
                   IN IF r.ok
                        THEN InsertKwargs(x, y, i + 1, MapInsert(kwargs_dict, k, r.value))
                        ELSE [ok |-> FALSE, kwargs_dict |-> <<>>,
                              error |-> KWArgsDictIsNotMappable]
              ELSE [ok |-> FALSE, kwargs_dict |-> <<>>, error |-> ArgsValueIsNotString]

\* "Collect kwargs": the named mapping, overwritten by the entries of **kwargs
CollectKwargs(named, kwargs) ==
  IF IsSome(kwargs)
    THEN LET x == Unwrap(kwargs)
             y == ValueIter(x)
         IN IF y.ok
              THEN InsertKwargs(x, y.items, 1, named)
              ELSE [ok |-> FALSE, kwargs_dict |-> <<>>, error |-> KWArgsDictIsNotMappable]
    ELSE [ok |-> TRUE, kwargs_dict |-> named, error |-> NoFunctionError]

\* what one arm of the match leaves: the argument pushed on v (None when the arm
\* returns an error), the iterator, the working mapping and the error
Bound(arg, it, kd) ==
  [ok |-> TRUE, arg |-> Some(arg), args_iter |-> it, kwargs_dict |-> kd,
   error |-> NoFunctionError]
Failed(e, it, kd) ==
  [ok |-> FALSE, arg |-> None, args_iter |-> it, kwargs_dict |-> kd, error |-> e]

\* BindNormal with a bug: the keyword is consulted before the positional values
BindNormalKeywordFirst(p, it, kd, ft, sig) ==
  LET r == MapRemove(kd, p.name)
  IN IF IsSome(r.value)
       THEN Bound(ArgNormal(Unwrap(r.value)), it, r.rest)
       ELSE IF Len(it) > 0
         THEN Bound(ArgNormal(Head(it)), Tail(it), kd)
         ELSE Failed(NotEnoughParameter(p.name, ft, sig), it, r.rest)

\* BindNormal with a bug: an absent Normal parameter is bound like an Optional one
BindNormalAbsentNone(p, it, kd, ft, sig) ==
  IF Len(it) > 0
    THEN Bound(ArgNormal(Head(it)), Tail(it), kd)
    ELSE LET r == MapRemove(kd, p.name)
         IN IF IsSome(r.value)
              THEN Bound(ArgNormal(Unwrap(r.value)), it, r.rest)
              ELSE Bound(ArgOptional(None), it, r.rest)

\* FunctionParameter::Normal(name)
BindNormal(p, it, kd, ft, sig) ==
  IF Len(it) > 0
    THEN Bound(ArgNormal(Head(it)), Tail(it), kd)
    ELSE LET r == MapRemove(kd, p.name)
         IN IF IsSome(r.value)
              THEN Bound(ArgNormal(Unwrap(r.value)), it, r.rest)
              ELSE Failed(NotEnoughParameter(p.name, ft, sig), it, r.rest)

\* BindOptional with a bug: a present value is pushed as Normal
BindOptionalAsNormal(p, it, kd) ==
  IF Len(it) > 0
    THEN Bound(ArgNormal(Head(it)), Tail(it), kd)
    ELSE LET r == MapRemove(kd, p.name)
         IN IF IsSome(r.value)
              THEN Bound(ArgNormal(Unwrap(r.value)), it, r.rest)
              ELSE Bound(ArgOptional(None), it, r.rest)

\* FunctionParameter::Optional(name)
BindOptional(p, it, kd) ==
  IF Len(it) > 0
    THEN Bound(ArgOptional(Some(Head(it))), Tail(it), kd)
    ELSE LET r == MapRemove(kd, p.name)
         IN IF IsSome(r.value)
              THEN Bound(ArgOptional(Some(Unwrap(r.value))), it, r.rest)
              ELSE Bound(ArgOptional(None), it, r.rest)

\* BindWithDefaultValue with a bug: absence yields Optional(None), not the default
BindWithDefaultValueAbsentNone(p, it, kd) ==
  IF Len(it) > 0
    THEN Bound(ArgNormal(Head(it)), Tail(it), kd)
    ELSE LET r == MapRemove(kd, p.name)
         IN IF IsSome(r.value)
              THEN Bound(ArgNormal(Unwrap(r.value)), it, r.rest)
              ELSE Bound(ArgOptional(None), it, r.rest)

\* FunctionParameter::WithDefaultValue(name, value)
BindWithDefaultValue(p, it, kd) ==
  IF Len(it) > 0
    THEN Bound(ArgNormal(Head(it)), Tail(it), kd)
    ELSE LET r == MapRemove(kd, p.name)
         IN IF IsSome(r.value)
              THEN Bound(ArgNormal(Unwrap(r.value)), it, r.rest)
              ELSE Bound(ArgNormal(Unwrap(p.default)), it, r.rest)

\* BindArgsArray with a bug: the iterator is cloned and collected but not drained
BindArgsArrayNoDrain(p, it, kd) == Bound(ArgArgsArray(it), it, kd)

\* FunctionParameter::ArgsArray(..): the rest of the iterator, which is then drained
BindArgsArray(p, it, kd) == Bound(ArgArgsArray(it), <<>>, kd)

\* FunctionParameter::KWArgsDict(..): mem::replace of the working mapping by an empty one
BindKWArgsDict(p, it, kd) == Bound(ArgKWArgsDict(kd), it, <<>>)

\* the match on one parameter of the signature
BindParameter(p, it, kd, ft, sig) ==
  CASE p.kind = "Normal" -> BindNormal(p, it, kd, ft, sig)
    [] p.kind = "Optional" -> BindOptional(p, it, kd)
    [] p.kind = "WithDefaultValue" -> BindWithDefaultValue(p, it, kd)
    [] p.kind = "ArgsArray" -> BindArgsArray(p, it, kd)
    [] p.kind = "KWArgsDict" -> BindKWArgsDict(p, it, kd)

\* ExtraCheck with a bug: the working mapping is not tested
ExtraCheckPositionalOnly(it, kd) ==
  [extra |-> Len(it) > 0,
   args_iter |-> IF Len(it) > 0 THEN Tail(it) ELSE it]

\* the test after the loop; args_iter.next() takes one element off the iterator
ExtraCheck(it, kd) ==
  [extra |-> (Len(it) > 0 \/ Len(kd) > 0),
   args_iter |-> IF Len(it) > 0 THEN Tail(it) ELSE it]

(***************************************************************************)
(* WrappedMethod::call: self_obj chained in front of the positional vector *)
(***************************************************************************)
\* WrappedPositional with a bug: self_obj chained behind the positional vector
WrappedPositionalAppended(receiver, positional) == positional \o <<receiver>>

WrappedPositional(receiver, positional) == <<receiver>> \o positional

(***************************************************************************)
(* Inputs                                                                  *)
(***************************************************************************)
ParamNames == {"x", "y"}
\* a parameter no keyword can name: its name carries the '$' marker
PositionalOnlyName == "$z"
DefaultValue == IntValue(10)

Parameters ==
  {ParamNormal(n) : n \in ParamNames}
    \cup {ParamOptional(n) : n \in ParamNames}
    \cup {ParamWithDefaultValue(n, DefaultValue) : n \in ParamNames}
    \cup {ParamNormal(PositionalOnlyName)}
    \cup {ParamArgsArray("args"), ParamKWArgsDict("kwargs")}

SeqsUpTo(S, n) == UNION {[1..m -> S] : m \in 0..n}

\* NativeFunction::new validates nothing: any kinds in any order, names repeated or not
Signatures == SeqsUpTo(Parameters, MaxParams)

Receiver == IntValue(0)
\* parse_signature never looks into a positional value: the vectors hold pairwise
\* different values, so that a value dropped, repeated or out of place shows
Positionals == {[i \in 1..n |-> IntValue(i)] : n \in 0..MaxPos}

NamedX == Entry("x", IntValue(21))
NamedY == Entry("y", IntValue(22))
NamedMaps == {<<>>, <<NamedX>>, <<NamedY>>, <<NamedX, NamedY>>, <<NamedY, NamedX>>}

NotIterable == IntValue(7)
ArgsChoices ==
  {None, Some(NotIterable), Some(ListValue(<<>>)),
   Some(ListValue(<<IntValue(41), IntValue(42)>>))}

KwargsChoices ==
  {None,
   Some(NotIterable),
   Some(DictValue(<<StrValue("x")>>, <<IntValue(31)>>)),
   Some(DictValue(<<StrValue("y"), StrValue("x")>>, <<IntValue(32), IntValue(31)>>)),
   Some(DictValue(<<StrValue("x"), IntValue(1)>>, <<IntValue(31), IntValue(33)>>)),
   Some(ListValue(<<StrValue("x"), IntValue(1)>>)),
   Some(ListValue(<<IntValue(1), StrValue("x")>>))}

\* what the function pointer may return
FunctionResults == {CallOk(NoneValue), CallErr(HostError)}

(***************************************************************************)
(* State                                                                   *)
(***************************************************************************)
VARIABLES
  signature,       \* NativeFunction.signature
  function_type,   \* NativeFunction.function_type
  method,          \* WrappedMethod.method: the name of the NativeFunction it wraps
  self_obj,        \* WrappedMethod.self_obj
  pc,              \* where the call in progress stands
  call,            \* the arguments of the outermost call and the callable it entered
  frame,           \* the arguments NativeFunction::call received
  native_calls,    \* entries into NativeFunction::call since the outermost call began
  args_iter,       \* parse_signature: what is left of av.into_iter()
  kwargs_dict,     \* parse_signature: the working keyword mapping
  v,               \* parse_signature: the arguments bound so far
  idx,             \* parse_signature: the parameter the loop is at
  raised,          \* parse_signature: the FunctionError of its return Err(..)
  parse_result,    \* what parse_signature returned
  invoked,         \* invocations of the function pointer in this call
  fn_args,         \* the vector the function pointer was invoked with
  fn_result,       \* what the function pointer returned
  native_result,   \* what NativeFunction::call returned
  result           \* what the outermost call returned

vars ==
  <<signature, function_type, method, self_obj, pc, call, frame, native_calls,
    args_iter, kwargs_dict, v, idx, raised, parse_result, invoked, fn_args,
    fn_result, native_result, result>>

objects == <<signature, function_type, method, self_obj>>

CallArgs(positional, named, args, kwargs) ==
  [positional |-> positional, named |-> named, args |-> args, kwargs |-> kwargs]
NoArgs == CallArgs(<<>>, <<>>, None, None)

\* NativeFunction::new and WrappedMethod::new
Init ==
  /\ signature \in Signatures
  /\ function_type = TypeNative("f")
  /\ method = "f"
  /\ self_obj = Receiver
  /\ pc = "idle"
  /\ call = [via |-> "", args |-> NoArgs]
  /\ frame = NoArgs
  /\ native_calls = 0
  /\ args_iter = <<>>
  /\ kwargs_dict = <<>>
  /\ v = <<>>
  /\ idx = 1
  /\ raised = NoFunctionError
  /\ parse_result = Pending
  /\ invoked = 0
  /\ fn_args = <<>>
  /\ fn_result = NoResult
  /\ native_result = NoResult
  /\ result = NoResult

\* NativeFunction::call is entered with `received`; nothing of the call has run yet
EnterNative(received) ==
  /\ frame' = received
  /\ native_calls' = native_calls + 1
  /\ pc' = "collect_args"
  /\ args_iter' = <<>>
  /\ kwargs_dict' = <<>>
  /\ v' = <<>>
  /\ idx' = 1
  /\ raised' = NoFunctionError
  /\ parse_result' = Pending
  /\ invoked' = 0
  /\ fn_args' = <<>>
  /\ fn_result' = NoResult
  /\ native_result' = NoResult
  /\ result' = NoResult

\* the evaluator calls the NativeFunction
NativeCall ==
  /\ pc = "idle"
  /\ \E positional \in Positionals, named \in NamedMaps,
        args \in ArgsChoices, kwargs \in KwargsChoices :
       /\ call' = [via |-> "native", args |-> CallArgs(positional, named, args, kwargs)]
       /\ EnterNative(CallArgs(positional, named, args, kwargs))
  /\ UNCHANGED objects

\* the evaluator calls the WrappedMethod, which calls self.method
WrappedCall ==
  /\ pc = "idle"
  /\ \E positional \in Positionals, named \in NamedMaps,
        args \in ArgsChoices, kwargs \in KwargsChoices :
       /\ call' = [via |-> "wrapped", args |-> CallArgs(positional, named, args, kwargs)]
       /\ EnterNative(CallArgs(WrappedPositional(self_obj, positional), named, args, kwargs))
  /\ UNCHANGED objects

\* parse_signature returns Err(e.into())
ReturnErr(e) ==
  /\ raised' = e
  /\ parse_result' = BindErr(e)
  /\ pc' = "parsed"

\* StepCollectArgs with a bug: **kwargs is validated before *args
StepCollectArgsKwargsFirst ==
  /\ pc = "collect_args"
  /\ LET r == CollectArgs(frame.positional, frame.args)
         k == CollectKwargs(frame.named, frame.kwargs)
     IN IF ~k.ok
          THEN /\ ReturnErr(k.error)
               /\ UNCHANGED args_iter
          ELSE IF r.ok
            THEN /\ args_iter' = r.av
                 /\ pc' = "collect_kwargs"
                 /\ UNCHANGED <<raised, parse_result>>
            ELSE /\ ReturnErr(r.error)
                 /\ UNCHANGED args_iter
  /\ UNCHANGED <<objects, call, frame, native_calls, kwargs_dict, v, idx, invoked,
                 fn_args, fn_result, native_result, result>>

StepCollectArgs ==
  /\ pc = "collect_args"
  /\ LET r == CollectArgs(frame.positional, frame.args)
     IN IF r.ok
          THEN /\ args_iter' = r.av
               /\ pc' = "collect_kwargs"
               /\ UNCHANGED <<raised, parse_result>>
          ELSE /\ ReturnErr(r.error)
               /\ UNCHANGED args_iter
  /\ UNCHANGED <<objects, call, frame, native_calls, kwargs_dict, v, idx, invoked,
                 fn_args, fn_result, native_result, result>>

StepCollectKwargs ==
  /\ pc = "collect_kwargs"
  /\ LET r == CollectKwargs(frame.named, frame.kwargs)
     IN IF r.ok
          THEN /\ kwargs_dict' = r.kwargs_dict
               /\ pc' = "walk"
               /\ UNCHANGED <<raised, parse_result>>
          ELSE /\ ReturnErr(r.error)
               /\ UNCHANGED kwargs_dict
  /\ UNCHANGED <<objects, call, frame, native_calls, args_iter, v, idx, invoked,
                 fn_args, fn_result, native_result, result>>

\* one iteration of `for parameter in signature`
StepParameter ==
  /\ pc = "walk"
  /\ idx <= Len(signature)
  /\ LET r == BindParameter(signature[idx], args_iter, kwargs_dict, function_type, signature)
     IN /\ args_iter' = r.args_iter
        /\ kwargs_dict' = r.kwargs_dict
        /\ IF r.ok
             THEN /\ v' = Append(v, Unwrap(r.arg))
                  /\ idx' = idx + 1
                  /\ UNCHANGED <<pc, raised, parse_result>>
             ELSE /\ ReturnErr(r.error)
                  /\ UNCHANGED <<v, idx>>
  /\ UNCHANGED <<objects, call, frame, native_calls, invoked, fn_args, fn_result,
                 native_result, result>>

\* the loop is over: the extras test and Ok(v)
StepExtras ==
  /\ pc = "walk"
  /\ idx > Len(signature)
  /\ LET r == ExtraCheck(args_iter, kwargs_dict)
     IN /\ args_iter' = r.args_iter
        /\ IF r.extra
             THEN ReturnErr(ExtraParameter)
             ELSE /\ parse_result' = BindOk(v)
                  /\ pc' = "parsed"
                  /\ UNCHANGED raised
  /\ UNCHANGED <<objects, call, frame, native_calls, kwargs_dict, v, idx, invoked,
                 fn_args, fn_result, native_result, result>>

\* NativeFinish with a bug: the function pointer runs whatever parse_signature returned
NativeFinishInvokesAlways ==
  /\ pc = "parsed"
  /\ \E r \in FunctionResults :
       /\ invoked' = invoked + 1
       /\ fn_args' = parse_result.args
       /\ fn_result' = r
       /\ native_result' = IF parse_result.tag = "Err" THEN CallErr(parse_result.err) ELSE r
  /\ pc' = "native_done"
  /\ UNCHANGED <<objects, call, frame, native_calls, args_iter, kwargs_dict, v, idx,
                 raised, parse_result, result>>

\* NativeFunction::call after parse_signature: `?` returns the error, otherwise
\* the function pointer runs on the bound vector and its result is the call's
NativeFinish ==
  /\ pc = "parsed"
  /\ IF parse_result.tag = "Err"
       THEN /\ native_result' = CallErr(parse_result.err)
            /\ UNCHANGED <<invoked, fn_args, fn_result>>
       ELSE \E r \in FunctionResults :
              /\ invoked' = invoked + 1
              /\ fn_args' = parse_result.args
              /\ fn_result' = r
              /\ native_result' = r
  /\ pc' = "native_done"
  /\ UNCHANGED <<objects, call, frame, native_calls, args_iter, kwargs_dict, v, idx,
                 raised, parse_result, result>>

\* the outermost callable returns: WrappedMethod::call hands on what method.call
\* returned, a direct call is NativeFunction::call itself
Return ==
  /\ pc = "native_done"
  /\ result' = native_result
  /\ pc' = "done"
  /\ UNCHANGED <<objects, call, frame, native_calls, args_iter, kwargs_dict, v, idx,
                 raised, parse_result, invoked, fn_args, fn_result, native_result>>

\* the caller has its result; both callables stand ready for the next call
NextCall ==
  /\ pc = "done"
  /\ pc' = "idle"
  /\ call' = [via |-> "", args |-> NoArgs]
  /\ frame' = NoArgs
  /\ native_calls' = 0
  /\ args_iter' = <<>>
  /\ kwargs_dict' = <<>>
  /\ v' = <<>>
  /\ idx' = 1
  /\ raised' = NoFunctionError
  /\ parse_result' = Pending
  /\ invoked' = 0
  /\ fn_args' = <<>>
  /\ fn_result' = NoResult
  /\ native_result' = NoResult
  /\ result' = NoResult
  /\ UNCHANGED objects

Next ==
  \/ NativeCall
  \/ WrappedCall
  \/ StepCollectArgs
  \/ StepCollectKwargs
  \/ StepParameter
  \/ StepExtras
  \/ NativeFinish
  \/ Return
  \/ NextCall

Spec == Init /\ [][Next]_vars

(***************************************************************************)
(* The call as the caller wrote it, read off the arguments parse_signature *)
(* received: what the properties below compare the binding against.        *)
(***************************************************************************)
NamedKind(i) == signature[i].kind \in {"Normal", "Optional", "WithDefaultValue"}
HasKind(kind) == \E i \in 1..Len(signature) : signature[i].kind = kind
KindBefore(kind, i) == \E j \in 1..(i - 1) : signature[j].kind = kind

\* *args is absent or iterates
ArgsIterable == ~IsSome(frame.args) \/ Unwrap(frame.args).type \in {"list", "dict"}
\* **kwargs is absent or a dict whose keys are all strings
KwargsIterable == ~IsSome(frame.kwargs) \/ Unwrap(frame.kwargs).type \in {"list", "dict"}
KwargsValid ==
  \/ ~IsSome(frame.kwargs)
  \/ /\ Unwrap(frame.kwargs).type = "dict"
     /\ \A i \in 1..Len(Unwrap(frame.kwargs).items) :
          Unwrap(frame.kwargs).items[i].type = "string"
ExpansionsOk == ArgsIterable /\ KwargsValid

\* the positional values in call order: the call site's, then the elements of *args
Expanded ==
  frame.positional \o (IF IsSome(frame.args) THEN Unwrap(frame.args).items ELSE <<>>)

\* the string keys of **kwargs and the names of the explicit keywords
SpreadKeys ==
  IF IsSome(frame.kwargs)
    THEN {Unwrap(frame.kwargs).items[i].s :
            i \in {j \in 1..Len(Unwrap(frame.kwargs).items) :
                     Unwrap(frame.kwargs).items[j].type = "string"}}
    ELSE {}
NamedKeys == {frame.named[i].k : i \in 1..Len(frame.named)}
WorkingKeys == NamedKeys \cup SpreadKeys
SpreadValue(name) ==
  LET d == Unwrap(frame.kwargs)
  IN d.vals[CHOOSE i \in 1..Len(d.items) : d.items[i] = StrValue(name)]
NamedValue(name) == frame.named[CHOOSE i \in 1..Len(frame.named) : frame.named[i].k = name].v
WorkingValue(name) == IF name \in SpreadKeys THEN SpreadValue(name) ELSE NamedValue(name)

\* the positional slot parameter i draws from, and whether the call fills it
PosIndex(i) == Cardinality({j \in 1..(i - 1) : NamedKind(j)}) + 1
HasPositional(i) == ~KindBefore("ArgsArray", i) /\ PosIndex(i) <= Len(Expanded)
\* whether a keyword of parameter i's name is still in the working mapping at i
\* (no KWArgsDict parameter before i captured it and no earlier parameter of the
\* same name, out of positional values, removed it)
HasKeyword(i) ==
  /\ signature[i].name \in WorkingKeys
  /\ ~KindBefore("KWArgsDict", i)
  /\ ~\E j \in 1..(i - 1) :
        NamedKind(j) /\ signature[j].name = signature[i].name /\ ~HasPositional(j)
\* a Required parameter the call gives no value
Missing(i) == signature[i].kind = "Normal" /\ ~HasPositional(i) /\ ~HasKeyword(i)
SomeMissing == \E i \in 1..Len(signature) : Missing(i)
FirstMissing == CHOOSE i \in 1..Len(signature) : Missing(i) /\ \A j \in 1..(i - 1) : ~Missing(j)

Returned == parse_result.tag # "Pending"

(***************************************************************************)
(* Properties                                                              *)
(***************************************************************************)
AnswerVariant(kind) ==
  CASE kind = "Normal" -> "Normal"
    [] kind = "WithDefaultValue" -> "Normal"
    [] kind = "Optional" -> "Optional"
    [] kind = "ArgsArray" -> "ArgsArray"
    [] kind = "KWArgsDict" -> "KWArgsDict"

\* C1: whenever parse_signature returns Ok, the returned vector has one entry per
\* declared parameter and entry i has the variant that answers parameter i: Normal
\* for Normal and WithDefaultValue, Optional for Optional, ArgsArray for ArgsArray,
\* KWArgsDict for KWArgsDict.
C1_BoundAlignsWithSignature ==
  parse_result.tag = "Ok" =>
    /\ Len(parse_result.args) = Len(signature)
    /\ \A i \in 1..Len(signature) :
         parse_result.args[i].variant = AnswerVariant(signature[i].kind)

\* a two-parameter signature mixing an Optional that got a value with a spread bound Ok
C1_Witness ==
  /\ parse_result.tag = "Ok"
  /\ Len(signature) = 2
  /\ signature[1].kind = "Optional"
  /\ signature[2].kind = "KWArgsDict"
  /\ IsSome(parse_result.args[1].value)
  /\ Len(parse_result.args[2].dict) > 0

\* C2, as the specification states it: binding [Normal("x")] against positional=[p],
\* named={"x": k} and no spreads yields the bound sequence [Normal(p)].
C2_PositionalExampleBinds ==
  ( /\ Returned
    /\ signature = <<ParamNormal("x")>>
    /\ Len(frame.positional) = 1
    /\ frame.named = <<NamedX>>
    /\ frame.args = None
    /\ frame.kwargs = None )
  => parse_result = BindOk(<<ArgNormal(frame.positional[1])>>)

\* C2, amended: a Normal/Optional/WithDefaultValue parameter whose positional slot
\* the call fills is bound to that positional value, never to a keyword of its name;
\* binding [Normal("x")] against positional=[p], named={"x": k} and no spreads binds
\* x to p, leaves the keyword x unconsumed and so fails with ExtraParameter instead
\* of yielding [Normal(p)].
C2_PositionalOverKeyword ==
  /\ \A i \in 1..Len(v) :
       (NamedKind(i) /\ HasPositional(i)) =>
         v[i].value = Some(Expanded[PosIndex(i)])
  /\ ( /\ Returned
       /\ signature = <<ParamNormal("x")>>
       /\ Len(frame.positional) = 1
       /\ frame.named = <<NamedX>>
       /\ frame.args = None
       /\ frame.kwargs = None )
     => /\ v = <<ArgNormal(frame.positional[1])>>
        /\ kwargs_dict = <<NamedX>>
        /\ raised = ExtraParameter
        /\ parse_result = BindErr(ExtraParameter)

\* [Normal("x")] called with one positional and named={"x": 21}: x is bound to the
\* positional and the call fails with ExtraParameter
C2_Witness ==
  /\ Returned
  /\ signature = <<ParamNormal("x")>>
  /\ Len(frame.positional) = 1
  /\ frame.named = <<NamedX>>
  /\ frame.args = None
  /\ frame.kwargs = None
  /\ v = <<ArgNormal(frame.positional[1])>>
  /\ raised = ExtraParameter

\* [Normal("x"), Optional("x")] called with one positional and named={"x": 21}: the
\* first x takes the positional, the second the keyword, and the call binds Ok
C2_WitnessRepeatedName ==
  /\ signature = <<ParamNormal("x"), ParamOptional("x")>>
  /\ Len(frame.positional) = 1
  /\ frame.named = <<NamedX>>
  /\ frame.args = None
  /\ frame.kwargs = None
  /\ parse_result =
       BindOk(<<ArgNormal(frame.positional[1]), ArgOptional(Some(IntValue(21)))>>)

\* C3: a name that is both in the named mapping and a string key of **kwargs raises
\* no error, and a parameter of that name bound by keyword gets the **kwargs value.
C3_SpreadKeywordWins ==
  /\ (Returned /\ ExpansionsOk) =>
       raised.variant \in {"", "NotEnoughParameter", "ExtraParameter"}
  /\ (pc = "walk" /\ idx = 1) =>
       /\ Keys(kwargs_dict) = WorkingKeys
       /\ \A i \in 1..Len(kwargs_dict) :
            kwargs_dict[i].v = WorkingValue(kwargs_dict[i].k)
  /\ \A i \in 1..Len(v) :
       (NamedKind(i) /\ ~HasPositional(i) /\ HasKeyword(i)
          /\ signature[i].name \in SpreadKeys) =>
         v[i].value = Some(SpreadValue(signature[i].name))

\* named={"x": 21}, **kwargs={"x": 31}: x is bound to 31 and the call binds Ok
C3_Witness ==
  /\ signature = <<ParamNormal("x")>>
  /\ frame.positional = <<>>
  /\ frame.named = <<NamedX>>
  /\ frame.kwargs = Some(DictValue(<<StrValue("x")>>, <<IntValue(31)>>))
  /\ parse_result = BindOk(<<ArgNormal(IntValue(31))>>)

\* C4: binding fails with NotEnoughParameter exactly when the walk reaches a Normal
\* parameter with the positionals exhausted and no keyword of its name left; the
\* error names the first such parameter in declaration order, carries the callee's
\* signature and function type unchanged, and no bound vector is returned.
C4_MissingRequired ==
  /\ (Returned /\ ExpansionsOk /\ SomeMissing) =>
       /\ raised = NotEnoughParameter(signature[FirstMissing].name, function_type, signature)
       /\ idx = FirstMissing
       /\ args_iter = <<>>
       /\ signature[idx].name \notin Keys(kwargs_dict)
       /\ parse_result.tag = "Err"
       /\ parse_result.args = <<>>
       /\ parse_result.err.code = NOT_ENOUGH_PARAMS_ERROR_CODE
       /\ signature = <<ParamNormal("$z")>> =>
            parse_result.err.message
              = "Missing parameter z for call to <native function f>($z)"
       /\ signature = <<ParamNormal("x"), ParamOptional("y")>> =>
            parse_result.err.message
              = "Missing parameter x for call to <native function f>(x, ?y)"
  /\ (Returned /\ raised.variant = "NotEnoughParameter") =>
       /\ ExpansionsOk
       /\ SomeMissing

\* [Normal, Normal] called with one positional value only: the second is missing
C4_Witness ==
  /\ Returned
  /\ Len(signature) = 2
  /\ signature[1].kind = "Normal"
  /\ signature[2].kind = "Normal"
  /\ Len(Expanded) = 1
  /\ WorkingKeys = {}
  /\ raised.variant = "NotEnoughParameter"
  /\ raised.missing = signature[2].name

\* [Normal("$z")] called with no arguments: the field keeps the declared name, the
\* message shows it without the marker
C4_WitnessPositionalOnly ==
  /\ Returned
  /\ signature = <<ParamNormal("$z")>>
  /\ raised.missing = "$z"
  /\ parse_result.err.message = "Missing parameter z for call to <native function f>($z)"

\* the call gives more positional values than the signature takes
LeftoverPositional ==
  ~HasKind("ArgsArray")
    /\ Len(Expanded) > Cardinality({i \in 1..Len(signature) : NamedKind(i)})
\* the call gives a keyword that no parameter takes by keyword
LeftoverKeyword ==
  ~HasKind("KWArgsDict")
    /\ \E k \in WorkingKeys :
         ~\E i \in 1..Len(signature) :
            NamedKind(i) /\ signature[i].name = k /\ ~HasPositional(i)

\* C5: when the walk completes without a missing parameter, binding fails with
\* ExtraParameter if and only if a positional value or a keyword entry was left
\* unconsumed; a successful binding has consumed them all.
C5_ExtraParameter ==
  /\ (Returned /\ ExpansionsOk /\ ~SomeMissing) =>
       /\ (LeftoverPositional \/ LeftoverKeyword) <=>
            (parse_result.tag = "Err" /\ raised = ExtraParameter)
       /\ ~(LeftoverPositional \/ LeftoverKeyword) <=> parse_result.tag = "Ok"
  /\ parse_result.tag = "Ok" =>
       /\ args_iter = <<>>
       /\ kwargs_dict = <<>>
       /\ ~LeftoverPositional
       /\ ~LeftoverKeyword
  /\ (Returned /\ raised = ExtraParameter) => (ExpansionsOk /\ ~SomeMissing)

\* [Normal] called with two positional values fails with ExtraParameter
C5_Witness ==
  /\ Returned
  /\ Len(signature) = 1
  /\ signature[1].kind = "Normal"
  /\ Len(frame.positional) = 2
  /\ WorkingKeys = {}
  /\ raised = ExtraParameter
  /\ parse_result.tag = "Err"

\* C6: a parameter reached with no positional left and no keyword of its name is
\* an error only when it is Normal: Optional is bound to Optional(None) and
\* WithDefaultValue to Normal(default).
C6_AbsentByKind ==
  /\ \A i \in 1..Len(v) :
       (~HasPositional(i) /\ ~HasKeyword(i)) =>
         /\ signature[i].kind = "Optional" => v[i] = ArgOptional(None)
         /\ signature[i].kind = "WithDefaultValue" =>
              v[i] = ArgNormal(Unwrap(signature[i].default))
  /\ raised.variant = "NotEnoughParameter" => signature[idx].kind = "Normal"

\* [WithDefaultValue("x", 10)] called with no arguments binds [Normal(10)]
C6_Witness ==
  /\ signature = <<ParamWithDefaultValue("x", DefaultValue)>>
  /\ frame = NoArgs
  /\ call.via = "native"
  /\ parse_result = BindOk(<<ArgNormal(DefaultValue)>>)

NativeReturned == pc \in {"native_done", "done"}

\* C7: NativeFunction::call invokes its function pointer at most once per call and
\* only after parse_signature returned Ok: on a binding error the pointer is not
\* invoked and the error is returned as it is; on Ok the pointer is invoked once with
\* the bound vector and what it returns is the call's result.
C7_NativeCallInvokesOnce ==
  /\ invoked <= 1
  /\ invoked = 1 =>
       /\ parse_result.tag = "Ok"
       /\ fn_args = parse_result.args
  /\ NativeReturned =>
       /\ parse_result.tag = "Err" =>
            /\ invoked = 0
            /\ native_result = CallErr(parse_result.err)
            /\ native_result.err = ValueErrorFrom(raised)
       /\ parse_result.tag = "Ok" =>
            /\ invoked = 1
            /\ native_result = fn_result
            /\ fn_result \in FunctionResults

\* a call that bound two parameters Ok and whose function pointer then failed
C7_Witness ==
  /\ NativeReturned
  /\ parse_result.tag = "Ok"
  /\ Len(fn_args) = 2
  /\ invoked = 1
  /\ native_result = CallErr(HostError)

\* C8: every call of the WrappedMethod enters the underlying callable once, with the
\* stored receiver at index 0 followed by the caller's positionals in order and with
\* named, *args and **kwargs as the caller gave them; what the underlying call
\* returns, binding errors included, is returned as it is; the stored receiver and
\* method never change.
C8_WrappedMethodDelegates ==
  [][ /\ self_obj' = self_obj
      /\ method' = method
      /\ call'.via = "wrapped" =>
           /\ native_calls' = 1
           /\ Len(frame'.positional) = Len(call'.args.positional) + 1
           /\ frame'.positional[1] = self_obj
           /\ \A i \in 1..Len(call'.args.positional) :
                frame'.positional[i + 1] = call'.args.positional[i]
           /\ frame'.named = call'.args.named
           /\ frame'.args = call'.args.args
           /\ frame'.kwargs = call'.args.kwargs
           /\ pc' = "done" =>
                /\ result' = native_result'
                /\ parse_result'.tag = "Err" =>
                     result' = CallErr(ValueErrorFrom(raised'))
                /\ parse_result'.tag = "Ok" => result' = fn_result' ]_vars

\* a wrapped call with two different positionals of the caller's, whose binding
\* error came back to the caller
C8_Witness ==
  /\ call.via = "wrapped"
  /\ pc = "done"
  /\ call.args.positional = <<IntValue(1), IntValue(2)>>
  /\ frame.positional = <<self_obj, IntValue(1), IntValue(2)>>
  /\ native_calls = 1
  /\ parse_result.tag = "Err"
  /\ result = CallErr(parse_result.err)

\* the value a parameter gets when no positional is left for it
KeywordFallback(i) ==
  IF HasKeyword(i)
    THEN Some(WorkingValue(signature[i].name))
    ELSE signature[i].default

\* C9: an ArgsArray parameter captures, in order, the expanded positional values
\* from the cursor to the end and leaves the cursor exhausted: every parameter
\* declared after it gets no positional value, and a signature with an ArgsArray
\* parameter never fails ExtraParameter over leftover positionals.
C9_ArgsArrayCapturesRest ==
  /\ \A i \in 1..Len(v) :
       /\ signature[i].kind = "ArgsArray" =>
            /\ v[i].variant = "ArgsArray"
            /\ v[i].array =
                 IF KindBefore("ArgsArray", i)
                   THEN <<>>
                   ELSE SubSeq(Expanded, PosIndex(i), Len(Expanded))
            /\ (Len(v) > i \/ idx > i) => args_iter = <<>>
       /\ (NamedKind(i) /\ KindBefore("ArgsArray", i)) =>
            v[i].value = KeywordFallback(i)
  /\ (Returned /\ HasKind("ArgsArray") /\ raised = ExtraParameter) =>
       /\ LeftoverKeyword
       /\ ~LeftoverPositional
       /\ kwargs_dict # <<>>

\* [x, *args] where *args captured two values after x took the first
C9_Witness ==
  /\ parse_result.tag = "Ok"
  /\ Len(signature) = 2
  /\ NamedKind(1)
  /\ signature[2].kind = "ArgsArray"
  /\ Len(frame.positional) = 1
  /\ IsSome(frame.args)
  /\ parse_result.args[2].array = <<IntValue(41), IntValue(42)>>

\* [*args, y]: y is starved of the positional values and falls back to its default
C9_WitnessStarved ==
  /\ parse_result.tag = "Ok"
  /\ Len(signature) = 2
  /\ signature[1].kind = "ArgsArray"
  /\ signature[2].kind = "WithDefaultValue"
  /\ Len(parse_result.args[1].array) = 3
  /\ parse_result.args[2] = ArgNormal(DefaultValue)

\* the first element of **kwargs, in iteration order, that stops the collection
FirstBadKey ==
  LET x == Unwrap(frame.kwargs)
      Bad(i) == x.items[i].type # "string" \/ x.type # "dict"
  IN CHOOSE i \in 1..Len(x.items) : Bad(i) /\ \A j \in 1..(i - 1) : ~Bad(j)
KwargsError ==
  IF ~KwargsIterable
    THEN KWArgsDictIsNotMappable
    ELSE IF Unwrap(frame.kwargs).items[FirstBadKey].type # "string"
      THEN ArgsValueIsNotString
      ELSE KWArgsDictIsNotMappable

\* C10: binding returns the error of the first failing step in the order collect
\* args, collect kwargs, signature walk, extras test: a *args value that does not
\* iterate gives ArgsArrayIsNotIterable whatever **kwargs is; a **kwargs failure
\* (KWArgsDictIsNotMappable when it does not iterate or an iterated key does not
\* index, ArgsValueIsNotString at the first element that is no string) comes before
\* any NotEnoughParameter, and NotEnoughParameter before ExtraParameter.
C10_FirstFailingStep ==
  Returned =>
    /\ ~ArgsIterable => raised = ArgsArrayIsNotIterable
    /\ (ArgsIterable /\ ~KwargsValid) => raised = KwargsError
    /\ (ExpansionsOk /\ SomeMissing) => raised.variant = "NotEnoughParameter"
    /\ (ExpansionsOk /\ ~SomeMissing /\ (LeftoverPositional \/ LeftoverKeyword)) =>
         raised = ExtraParameter
    /\ parse_result.tag = "Err" => parse_result.err = ValueErrorFrom(raised)

\* neither spread is valid and a Normal parameter is missing: the *args error wins
C10_Witness ==
  /\ Returned
  /\ ~ArgsIterable
  /\ ~KwargsValid
  /\ HasKind("Normal")
  /\ raised = ArgsArrayIsNotIterable

\* **kwargs = ["x", 1] fails at "x", which does not index, before 1, which is no
\* string, and before the missing parameter and the leftover keyword
C10_WitnessKwargs ==
  /\ Returned
  /\ ArgsIterable
  /\ frame.kwargs = Some(ListValue(<<StrValue("x"), IntValue(1)>>))
  /\ signature = <<ParamNormal("y")>>
  /\ Expanded = <<>>
  /\ raised = KWArgsDictIsNotMappable

\* a missing Normal parameter and a leftover keyword: NotEnoughParameter wins
C10_WitnessMissing ==
  /\ Returned
  /\ ExpansionsOk
  /\ SomeMissing
  /\ LeftoverKeyword
  /\ raised.variant = "NotEnoughParameter"

====
